---- MODULE Spec2Model ----
(***************************************************************************)
(* FONTA: usage-gated generation pipeline.                                 *)
(*                                                                         *)
(* The model follows the source:                                           *)
(*   - useUsageLimits (src/src/hooks/useUsageLimits.ts): one hook instance *)
(*     per mounted tab, holding totalUsage / canUse / timeUntilReset in    *)
(*     component state, backed by one daily_usage row per (user, date);    *)
(*   - the tab handlers handleSummarize / handleGenerateQuiz /             *)
(*     handleGetHelp, which test the hook's canUse, run the generator and  *)
(*     then call incrementUsage;                                           *)
(*   - callHFWithRetry and the three generators of src/src/lib/ai.ts.      *)
(*                                                                         *)
(* Every `await` of the source is a step boundary.  An action resumes a    *)
(* suspended coroutine: the store operation it was waiting for takes       *)
(* effect and the code up to the next await runs, all in that one step.    *)
(* A handler reads canUse / totalUsage / incrementUsage from the render it *)
(* was created in, so a request carries the values it captured when it     *)
(* started.                                                                *)
(* One identity and one calendar day are modelled.                         *)
(***************************************************************************)
EXTENDS Integers, Sequences, FiniteSets, TLC

VARIABLES
    now,       \* wall clock, milliseconds
    rec,       \* the daily_usage row of (identity, today)
    storeUp,   \* whether the usage store can be reached
    premium,   \* profiles.subscription_type = 'premium'
    hook,      \* hook instance -> component state of useUsageLimits
    req,       \* request slot -> one handler invocation
    epoch,     \* history: number of resets performed on the row
    nAllowed,  \* history: handler invocations that passed the canUse test
    nDenied,   \* history: handler invocations stopped by the canUse test
    inv,       \* one stand-alone run of callHFWithRetry (attempt by attempt)
    out        \* one stand-alone call of a generator of src/lib/ai.ts

vars == <<now, rec, storeUp, premium, hook, req, epoch, nAllowed, nDenied, inv, out>>

----------------------------------------------------------------------------
(* Bounds of the model *)

NHooks == 2
MaxReqs == 2
MaxTicks == 3
MaxCalls == 17
MaxCount == 17
MaxAttemptsBound == 4

(* Program constants *)

Cap == 15
MaxRetries == 3

HourMs == 60 * 60 * 1000
SixHours == 6 * 60 * 60 * 1000
TickMs == 3 * HourMs

Hooks == 1..NHooks
Slots == 1..MaxReqs

Max(a, b) == IF a >= b THEN a ELSE b
Min(a, b) == IF a <= b THEN a ELSE b

----------------------------------------------------------------------------
(* useUsageLimits: pure parts *)

\* Mutant: the cap test off by one.
CanUseNowOffByOne(count) == count <= Cap

\* canUseNow = data.total_count < 15
CanUseNow(count) == count < Cap

\* Mutant: the window must have been exceeded, not just reached.
ResetDueStrict(count, lastReset, t) == (t - lastReset > SixHours) /\ (count >= Cap)

\* Mutant: the reset looks at the window only.
ResetDueWindowOnly(count, lastReset, t) == t - lastReset >= SixHours

\* timeSinceReset >= sixHours && data.total_count >= 15
ResetDue(count, lastReset, t) == (t - lastReset >= SixHours) /\ (count >= Cap)

\* the reset window of the row has elapsed at time t
Expired(lastReset, t) == t - lastReset >= SixHours

\* Math.max(0, resetTime - new Date().getTime())
calculateTimeUntilReset(lastReset, t) == Max(0, (lastReset + SixHours) - t)

\* remainingUses: Math.max(0, 15 - totalUsage)
remainingUses(totalUsage) == Max(0, Cap - totalUsage)

\* total_count: totalUsage + 1
IncrementedCount(totalUsage) == totalUsage + 1

\* useState initial values and the effect that starts loadUsageData
HookInit ==
    [totalUsage |-> 0, canUse |-> TRUE, timeUntilReset |-> 0, loading |-> TRUE,
     lpc |-> "select", lts |-> 0,
     ldDone |-> FALSE, ldExpired |-> FALSE, ldCount |-> 0, ldFailed |-> FALSE]

\* The rows of daily_usage for the user and the day: rows says how many there
\* are, count and lastReset are total_count and last_reset of the one the
\* hook reads.
NoRow == [exists |-> FALSE, count |-> 0, lastReset |-> 0, rows |-> 0]

\* Mutant: the table has no unique index on (user_id, date).
InsertAcceptedNoIndex(row) == TRUE

\* CREATE UNIQUE INDEX daily_usage_user_date_idx ON daily_usage(user_id, date):
\* an insert is accepted only when no row for the user and the day exists
InsertAccepted(row) == ~row.exists

----------------------------------------------------------------------------
(* Text of a request: a sequence of characters; " " is white space *)

Texts == { <<>>, <<" ">>, <<"n">> }

RECURSIVE TrimLeft(_)
TrimLeft(s) == IF s # <<>> /\ Head(s) = " " THEN TrimLeft(Tail(s)) ELSE s

RECURSIVE TrimRight(_)
TrimRight(s) ==
    IF s # <<>> /\ s[Len(s)] = " " THEN TrimRight(SubSeq(s, 1, Len(s) - 1)) ELSE s

Trim(s) == TrimRight(TrimLeft(s))

----------------------------------------------------------------------------
(* src/src/lib/ai.ts: callHFWithRetry *)

\* What one axios.post of the loop can produce:
\*   "ok"        a 2xx response carrying the expected text field
\*   "blank"     a 2xx response whose text field holds white space only
\*   "unusable"  a 2xx response without the expected text field
\*   "loading"   a 2xx response whose data.error includes 'loading' (warm-up)
\*   "transient" axios throws: network failure, timeout, 5xx
\*   "fatal"     axios throws: malformed request, authentication failure (4xx)
Outcomes == {"ok", "blank", "unusable", "loading", "transient", "fatal"}

Throws(o) == o \in {"transient", "fatal"}

\* Mutant: the loop gives up one attempt early.
AttemptStepShort(attempt, o, maxRetries) ==
    IF Throws(o)
    THEN IF attempt >= maxRetries - 1
         THEN [act |-> "throw", delay |-> 0]
         ELSE [act |-> "retry", delay |-> attempt * 1000]
    ELSE IF o = "loading" /\ attempt < maxRetries
         THEN [act |-> "retry", delay |-> attempt * 2000]
         ELSE [act |-> "return", delay |-> 0]

\* Mutant: the warm-up wait uses the multiplier of the generic failure.
AttemptStepFlatBackoff(attempt, o, maxRetries) ==
    IF Throws(o)
    THEN IF attempt = maxRetries
         THEN [act |-> "throw", delay |-> 0]
         ELSE [act |-> "retry", delay |-> attempt * 1000]
    ELSE IF o = "loading" /\ attempt < maxRetries
         THEN [act |-> "retry", delay |-> attempt * 1000]
         ELSE [act |-> "return", delay |-> 0]

\* One iteration of the for loop: what attempt number `attempt` does with
\* outcome o.  A thrown error is retried whatever its kind; a warm-up response
\* on the last attempt falls through to `return response.data`.
AttemptStep(attempt, o, maxRetries) ==
    IF Throws(o)
    THEN IF attempt = maxRetries
         THEN [act |-> "throw", delay |-> 0]
         ELSE [act |-> "retry", delay |-> attempt * 1000]
    ELSE IF o = "loading" /\ attempt < maxRetries
         THEN [act |-> "retry", delay |-> attempt * 2000]
         ELSE [act |-> "return", delay |-> 0]

RECURSIVE HFLoop(_, _, _, _)
HFLoop(os, attempt, maxRetries, waited) ==
    IF attempt > maxRetries
    THEN [status |-> "undefined", data |-> "none",
          attempts |-> attempt - 1, waited |-> waited]
    ELSE LET s == AttemptStep(attempt, os[attempt], maxRetries) IN
         IF s.act = "return"
         THEN [status |-> "returned", data |-> os[attempt],
               attempts |-> attempt, waited |-> waited]
         ELSE IF s.act = "throw"
         THEN [status |-> "threw", data |-> "none",
               attempts |-> attempt, waited |-> waited]
         ELSE HFLoop(os, attempt + 1, maxRetries, waited + s.delay)

\* The whole call, given the outcome of each attempt it may make.
callHFWithRetry(os, maxRetries) == HFLoop(os, 1, maxRetries, 0)

OutcomeSeqs == [1..MaxRetries -> Outcomes]

----------------------------------------------------------------------------
(* src/src/lib/ai.ts: the three generators *)

\* result?.[0]?.summary_text / result?.[0]?.generated_text is truthy
HasText(r) == r.status = "returned" /\ r.data \in {"ok", "blank"}

\* parseQuizFromText(...).length > 0: the text has a non-blank line
ParsedNonEmpty(r) == r.data = "ok"

\* Mutant: the catch block lets the error out.
SummarizeTextRethrow(os) ==
    LET r == callHFWithRetry(os, MaxRetries) IN
    IF r.status = "threw"
    THEN [source |-> "none", error |-> TRUE, hf |-> r.status, nonEmpty |-> FALSE]
    ELSE IF HasText(r)
    THEN [source |-> "primary", error |-> FALSE, hf |-> r.status, nonEmpty |-> TRUE]
    ELSE [source |-> "fallback", error |-> FALSE, hf |-> r.status, nonEmpty |-> TRUE]

\* summarizeText: formatSummary of the primary text, else createExtractiveSummary
SummarizeText(os) ==
    LET r == callHFWithRetry(os, MaxRetries) IN
    IF r.status = "threw"
    THEN [source |-> "fallback", error |-> FALSE, hf |-> r.status, nonEmpty |-> TRUE]
    ELSE IF HasText(r)
    THEN [source |-> "primary", error |-> FALSE, hf |-> r.status, nonEmpty |-> TRUE]
    ELSE [source |-> "fallback", error |-> FALSE, hf |-> r.status, nonEmpty |-> TRUE]

\* generateQuiz: the parsed questions when there is at least one, else
\* generateMockQuiz (10 questions)
GenerateQuiz(os) ==
    LET r == callHFWithRetry(os, MaxRetries) IN
    IF r.status = "threw"
    THEN [source |-> "fallback", error |-> FALSE, hf |-> r.status, nonEmpty |-> TRUE]
    ELSE IF HasText(r) /\ ParsedNonEmpty(r)
    THEN [source |-> "primary", error |-> FALSE, hf |-> r.status, nonEmpty |-> TRUE]
    ELSE [source |-> "fallback", error |-> FALSE, hf |-> r.status, nonEmpty |-> TRUE]

\* Mutant: the catch block of getHomeworkHelp lets the error out.
GetHomeworkHelpRethrow(os) ==
    LET r == callHFWithRetry(os, MaxRetries) IN
    IF r.status = "threw"
    THEN [source |-> "none", error |-> TRUE, hf |-> r.status, nonEmpty |-> FALSE]
    ELSE IF HasText(r)
    THEN [source |-> "primary", error |-> FALSE, hf |-> r.status, nonEmpty |-> TRUE]
    ELSE [source |-> "fallback", error |-> FALSE, hf |-> r.status, nonEmpty |-> TRUE]

\* getHomeworkHelp: formatHomeworkResponse of the primary text, else
\* generateMockHomeworkHelp
GetHomeworkHelp(os) ==
    LET r == callHFWithRetry(os, MaxRetries) IN
    IF r.status = "threw"
    THEN [source |-> "fallback", error |-> FALSE, hf |-> r.status, nonEmpty |-> TRUE]
    ELSE IF HasText(r)
    THEN [source |-> "primary", error |-> FALSE, hf |-> r.status, nonEmpty |-> TRUE]
    ELSE [source |-> "fallback", error |-> FALSE, hf |-> r.status, nonEmpty |-> TRUE]

Kinds == {"summary", "quiz", "homework"}

\* the generator a tab's handler awaits
GenerateContent(kind, os) ==
    IF kind = "summary" THEN SummarizeText(os)
    ELSE IF kind = "quiz" THEN GenerateQuiz(os)
    ELSE GetHomeworkHelp(os)

\* what the generator of each kind can hand back, over every sequence of
\* upstream outcomes
GeneratorResults == [k \in Kinds |-> {GenerateContent(k, os) : os \in OutcomeSeqs}]

----------------------------------------------------------------------------
(* State after construction *)

\* A handler invocation.  pc: "idle" (slot free), "gen" (awaiting the
\* generator), "incr" (awaiting the update of incrementUsage), "done",
\* "denied" (returned at the canUse test), "rejected" (returned at the empty
\* text test), "failed" (the catch block ran).  kind, source and hf are the
\* handler's locals and are gone when it returns.
ReqIdle ==
    [pc |-> "idle", hook |-> 0, kind |-> "none",
     canUse |-> FALSE, totalUsage |-> 0,
     source |-> "none", hf |-> "none", charged |-> FALSE,
     \* history: the row and the hook when the handler was invoked
     \* (startCount is -1 when there was no row)
     startCount |-> 0, startExpired |-> FALSE, startLdFailed |-> FALSE,
     startEpoch |-> 0, shownReset |-> 0,
     \* history: by how much the request's update changed the persisted count
     wrote |-> FALSE, delta |-> 0,
     \* history: whether content.trim() was non-empty when the handler ran on,
     \* and how many messages the handler has added (addMessage)
     textOk |-> FALSE, msgs |-> 0,
     \* history: generateQuiz handed back no question
     emptyQuiz |-> FALSE]

\* A stand-alone run of callHFWithRetry.  pc: "idle", "call" (awaiting
\* axios.post), "wait" (awaiting the backoff timer), "returned", "threw".
\* outcomes is the history of what each attempt got; cancelled says that the
\* caller has abandoned the request (its tab was left or closed).
InvIdle ==
    [pc |-> "idle", maxRetries |-> 0, attempt |-> 0, outcomes |-> <<>>,
     waited |-> 0, data |-> "none", cancelled |-> FALSE]

\* A stand-alone call of one of the generators.  fn names the function, args
\* holds its arguments and result what it returned.
OutIdle == [pc |-> "idle", fn |-> "none", args |-> <<>>, result |-> <<>>]

\* Rows the day can start from: none yet, a fresh one, one below the cap,
\* one at the cap.
InitCounts == {0, Cap - 1, Cap}

InitRows == {NoRow} \cup
            {[exists |-> TRUE, count |-> c, lastReset |-> 0, rows |-> 1] : c \in InitCounts}

FreshRow == [exists |-> TRUE, count |-> 0, lastReset |-> 0, rows |-> 1]

InitWith(rows, flags) ==
    /\ now = 0
    /\ rec \in rows
    /\ storeUp = TRUE
    /\ premium \in flags
    /\ hook = [h \in Hooks |-> HookInit]
    /\ req = [r \in Slots |-> ReqIdle]
    /\ epoch = 0
    /\ nAllowed = 0
    /\ nDenied = 0
    /\ inv = InvIdle
    /\ out = OutIdle

\* Every tab has just been mounted: its loadUsageData awaits the select.
Init == InitWith(InitRows, {FALSE})

----------------------------------------------------------------------------
(* useUsageLimits: loadUsageData and resetUsage *)

\* loadUsageData has finished (finally: setLoading(false)); the history fields
\* record what this load saw and what it leaves exposed.
LoadDone(hs, expired, failed) ==
    [hs EXCEPT !.lpc = "idle", !.loading = FALSE, !.ldDone = TRUE,
               !.ldExpired = expired, !.ldCount = hs.totalUsage,
               !.ldFailed = failed]

\* The select of loadUsageData returns.
LoadSelectResume(h) ==
    /\ hook[h].lpc = "select"
    /\ hook' = [hook EXCEPT ![h] =
          IF ~storeUp
          THEN \* an error other than PGRST116 and no data: neither branch runs
               LoadDone(hook[h], FALSE, TRUE)
          ELSE IF ~rec.exists
          THEN \* PGRST116: the insert is issued with last_reset = now
               [hook[h] EXCEPT !.lpc = "insert", !.lts = now]
          ELSE IF ResetDue(rec.count, rec.lastReset, now)
          THEN \* setTotalUsage(data.total_count); await resetUsage()
               [hook[h] EXCEPT !.totalUsage = rec.count, !.lpc = "reset",
                               !.lts = now, !.ldExpired = TRUE]
          ELSE LoadDone(
                 [hook[h] EXCEPT !.totalUsage = rec.count,
                                 !.canUse = CanUseNow(rec.count),
                                 !.timeUntilReset =
                                     calculateTimeUntilReset(rec.lastReset, now)],
                 Expired(rec.lastReset, now), FALSE)]
    /\ UNCHANGED <<now, rec, storeUp, premium, req, epoch, nAllowed, nDenied, inv, out>>

\* The insert of loadUsageData returns.  It yields no row when the store is
\* unreachable or when the unique index (user_id, date) rejects it.
LoadInsertResume(h) ==
    /\ hook[h].lpc = "insert"
    /\ IF storeUp /\ InsertAccepted(rec)
       THEN /\ rec' = [exists |-> TRUE, count |-> 0, lastReset |-> hook[h].lts,
                       rows |-> rec.rows + 1]
            /\ hook' = [hook EXCEPT ![h] =
                  LoadDone(
                    [hook[h] EXCEPT !.totalUsage = 0, !.canUse = TRUE,
                                    !.timeUntilReset =
                                        calculateTimeUntilReset(hook[h].lts, now)],
                    FALSE, FALSE)]
       ELSE /\ rec' = rec
            /\ hook' = [hook EXCEPT ![h] = LoadDone(hook[h], FALSE, ~storeUp)]
    /\ UNCHANGED <<now, storeUp, premium, req, epoch, nAllowed, nDenied, inv, out>>

\* The update of resetUsage returns, and loadUsageData with it.
LoadResetResume(h) ==
    /\ hook[h].lpc = "reset"
    /\ IF storeUp /\ rec.exists
       THEN /\ rec' = [rec EXCEPT !.count = 0, !.lastReset = hook[h].lts]
            /\ epoch' = epoch + 1
            /\ hook' = [hook EXCEPT ![h] =
                  LoadDone(
                    [hook[h] EXCEPT !.totalUsage = 0, !.canUse = TRUE,
                                    !.timeUntilReset = SixHours],
                    TRUE, FALSE)]
       ELSE /\ rec' = rec
            /\ epoch' = epoch
            /\ hook' = [hook EXCEPT ![h] = LoadDone(hook[h], TRUE, ~storeUp)]
    /\ UNCHANGED <<now, storeUp, premium, req, nAllowed, nDenied, inv, out>>

\* requests of hook h that are still running
InFlight(h) == {r \in Slots : req[r].hook = h /\ req[r].pc \in {"gen", "incr"}}

\* The tab is unmounted and mounted again (tab switch, page reload): a new
\* hook instance with the initial state, whose effect starts loadUsageData.
Remount(h) ==
    /\ hook[h].lpc = "idle"
    /\ InFlight(h) = {}
    /\ hook' = [hook EXCEPT ![h] = HookInit]
    /\ UNCHANGED <<now, rec, storeUp, premium, req, epoch, nAllowed, nDenied, inv, out>>

----------------------------------------------------------------------------
(* The tab handlers: handleSummarize, handleGenerateQuiz, handleGetHelp *)

\* Mutant: the handler forgets the canUse test.
HandlerProceedsNoQuota(text, canUse) == Trim(text) # <<>>

\* Mutant: the handler forgets the test of the text.
HandlerProceedsNoTextTest(text, canUse) == canUse

\* if (!content.trim() || !canUse) return;
HandlerProceeds(text, canUse) == Trim(text) # <<>> /\ canUse

\* The handler is invoked on hook h's tab.  It captures canUse, totalUsage and
\* incrementUsage of the current render, tests the guard and, when it passes,
\* awaits the generator.  Slots are taken in order.
StartRequest(r, h, kind, text) ==
    /\ req[r].pc = "idle"
    /\ \A q \in Slots : q < r => req[q].pc # "idle"
    /\ LET textOk == Trim(text) # <<>>
           proceeds == HandlerProceeds(text, hook[h].canUse)
       IN
       req' = [req EXCEPT ![r] =
          IF ~textOk /\ ~proceeds
          THEN [ReqIdle EXCEPT !.pc = "rejected", !.hook = h]
          ELSE [ReqIdle EXCEPT
             !.pc = IF proceeds THEN "gen" ELSE "denied",
             !.hook = h,
             !.kind = IF proceeds THEN kind ELSE "none",
             !.canUse = hook[h].canUse,
             !.totalUsage = hook[h].totalUsage,
             !.startCount = IF rec.exists THEN rec.count ELSE -1,
             !.startExpired = rec.exists /\ Expired(rec.lastReset, now),
             !.startLdFailed = hook[h].ldFailed,
             !.startEpoch = epoch,
             !.textOk = textOk,
             \* addMessage({ role: 'user', content, type: 'text' })
             !.msgs = IF proceeds THEN 1 ELSE 0,
             \* the countdown the tab shows with the denial
             !.shownReset = IF proceeds THEN 0 ELSE hook[h].timeUntilReset]]
    /\ UNCHANGED <<now, rec, storeUp, premium, hook, epoch, inv, out>>

\* A handler invocation.
Call(r, h, kind, text) ==
    /\ StartRequest(r, h, kind, text)
    /\ UNCHANGED <<nAllowed, nDenied>>

\* A handler invocation, counted: nAllowed and nDenied say how many
\* invocations with a non-empty text passed and failed the canUse test.
CountedCall(r, h, kind, text) ==
    /\ nAllowed + nDenied < MaxCalls
    /\ StartRequest(r, h, kind, text)
    /\ nAllowed' = IF req'[r].pc = "gen" THEN nAllowed + 1 ELSE nAllowed
    /\ nDenied' = IF req'[r].pc = "denied" THEN nDenied + 1 ELSE nDenied

\* The generator returns (or throws) and the handler runs on to its next
\* await: the update of incrementUsage.  The generator touches neither the
\* store nor the hook, so its attempts are folded into this one step.
Generate(r) ==
    /\ req[r].pc = "gen"
    /\ \E g \in GeneratorResults[req[r].kind] :
          req' = [req EXCEPT ![r] =
             IF g.error
             THEN \* catch: the error message is shown
                  [req[r] EXCEPT !.pc = "failed", !.source = g.source, !.hf = g.hf,
                                 !.msgs = @ + 1]
             ELSE IF (req[r].kind = "quiz" /\ ~g.nonEmpty) \/ ~req[r].canUse
             THEN \* no questions, so no increment; or incrementUsage: return false
                  [req[r] EXCEPT !.pc = "done", !.kind = "none", !.msgs = @ + 1,
                                 !.emptyQuiz = (req[r].kind = "quiz" /\ ~g.nonEmpty)]
             ELSE [req[r] EXCEPT !.pc = "incr", !.source = g.source, !.hf = g.hf,
                                 !.msgs = @ + 1]]
    /\ UNCHANGED <<now, rec, storeUp, premium, hook, epoch, nAllowed, nDenied, inv, out>>

\* The update of incrementUsage returns, and the handler finishes.  With no
\* row matched or the store unreachable, data is null and it returns false.
\* (MaxCount keeps the model finite: the code itself puts no bound on the
\* value it writes.)
IncrementResume(r) ==
    /\ req[r].pc = "incr"
    /\ IncrementedCount(req[r].totalUsage) <= MaxCount
    /\ LET h == req[r].hook
           n == IncrementedCount(req[r].totalUsage)
           returned == [req[r] EXCEPT !.pc = "done", !.kind = "none",
                                      !.source = "none", !.hf = "none"]
       IN IF storeUp /\ rec.exists
          THEN /\ rec' = [rec EXCEPT !.count = n]
               /\ hook' = [hook EXCEPT ![h].totalUsage = n,
                                       ![h].canUse = CanUseNow(n)]
               /\ req' = [req EXCEPT ![r] =
                     [returned EXCEPT !.charged = TRUE, !.wrote = TRUE,
                                      !.delta = n - rec.count]]
          ELSE /\ rec' = rec
               /\ hook' = hook
               /\ req' = [req EXCEPT ![r] = returned]
    /\ UNCHANGED <<now, storeUp, premium, epoch, nAllowed, nDenied, inv, out>>

\* A finished handler invocation leaves its slot free for the next call.
Release(r) ==
    /\ req[r].pc \in {"done", "denied", "rejected", "failed"}
    /\ req' = [req EXCEPT ![r] = ReqIdle]
    /\ UNCHANGED <<now, rec, storeUp, premium, hook, epoch, nAllowed, nDenied, inv, out>>

----------------------------------------------------------------------------
(* Environment *)

Tick ==
    /\ now < MaxTicks * TickMs
    /\ now' = now + TickMs
    /\ UNCHANGED <<rec, storeUp, premium, hook, req, epoch, nAllowed, nDenied, inv, out>>

StoreFail ==
    /\ storeUp
    /\ storeUp' = FALSE
    /\ UNCHANGED <<now, rec, premium, hook, req, epoch, nAllowed, nDenied, inv, out>>

StoreRecover ==
    /\ ~storeUp
    /\ storeUp' = TRUE
    /\ UNCHANGED <<now, rec, premium, hook, req, epoch, nAllowed, nDenied, inv, out>>

----------------------------------------------------------------------------
(* callHFWithRetry, attempt by attempt *)

\* axios.post of the current attempt settles with outcome o.
InvRespond(o) ==
    /\ inv.pc = "call"
    /\ LET s == AttemptStep(inv.attempt, o, inv.maxRetries)
           seen == [inv EXCEPT !.outcomes = Append(inv.outcomes, o)]
       IN inv' = IF s.act = "return"
                 THEN [seen EXCEPT !.pc = "returned", !.data = o]
                 ELSE IF s.act = "throw"
                 THEN [seen EXCEPT !.pc = "threw"]
                 ELSE [seen EXCEPT !.pc = "wait", !.waited = inv.waited + s.delay]
    /\ UNCHANGED <<now, rec, storeUp, premium, hook, req, epoch, nAllowed, nDenied, out>>

\* Mutant: a retry does not use up an attempt.
InvWakeKeepsAttempt ==
    /\ inv.pc = "wait"
    /\ inv' = [inv EXCEPT !.pc = "call"]
    /\ UNCHANGED <<now, rec, storeUp, premium, hook, req, epoch, nAllowed, nDenied, out>>

\* The backoff timer fires: the loop goes round, or ends when attempt exceeds
\* maxRetries.
InvWake ==
    /\ inv.pc = "wait"
    /\ inv' = IF inv.attempt + 1 <= inv.maxRetries
              THEN [inv EXCEPT !.pc = "call", !.attempt = inv.attempt + 1]
              ELSE [inv EXCEPT !.pc = "returned", !.data = "none"]
    /\ UNCHANGED <<now, rec, storeUp, premium, hook, req, epoch, nAllowed, nDenied, out>>

----------------------------------------------------------------------------
(* Spec: several tabs or devices of one identity, whose loads and requests
   overlap, over a store that may fail.  The three handlers use the hook in
   the same way; this specification runs the summary handler, and TabSpec
   runs all three. *)

SpecKinds == {"summary"}

Next ==
    \/ \E h \in Hooks : LoadSelectResume(h)
    \/ \E h \in Hooks : LoadInsertResume(h)
    \/ \E h \in Hooks : LoadResetResume(h)
    \/ \E r \in Slots, h \in Hooks, k \in SpecKinds, t \in Texts : Call(r, h, k, t)
    \/ \E r \in Slots : Generate(r)
    \/ \E r \in Slots : IncrementResume(r)
    \/ Tick
    \/ StoreFail
    \/ StoreRecover

Spec == Init /\ [][Next]_vars

----------------------------------------------------------------------------
(* TabSpec: one tab, one handler invocation at a time, any number of them,
   of any kind; the tab may be remounted and the store may fail; the identity
   may be premium *)

TabInit == InitWith(InitRows, BOOLEAN)

TabNext ==
    \/ LoadSelectResume(1)
    \/ LoadInsertResume(1)
    \/ LoadResetResume(1)
    \/ Remount(1)
    \/ \E k \in Kinds, t \in Texts : Call(1, 1, k, t)
    \/ Generate(1)
    \/ IncrementResume(1)
    \/ Release(1)
    \/ Tick
    \/ StoreFail
    \/ StoreRecover

TabSpec == TabInit /\ [][TabNext]_vars

----------------------------------------------------------------------------
(* SeqSpec: sequential calls on one mounted tab, starting from a fresh row,
   with the store reachable throughout *)

SeqInit == InitWith({FreshRow}, BOOLEAN)

SeqNext ==
    \/ LoadSelectResume(1)
    \/ LoadResetResume(1)
    \/ \E k \in Kinds, t \in Texts : CountedCall(1, 1, k, t)
    \/ Generate(1)
    \/ IncrementResume(1)
    \/ Release(1)
    \/ Tick

SeqSpec == SeqInit /\ [][SeqNext]_vars

----------------------------------------------------------------------------
(* PipelineSpec: the requests of one mounted tab, one after the other, of any
   kind, over a store that may fail.  Under PipelineFairSpec a generator that
   was called returns (callHFWithRetry ends and the fallbacks are local) and
   the update of incrementUsage settles. *)

PipelineInit == InitWith(InitRows, {FALSE})

PipelineNext ==
    \/ LoadSelectResume(1)
    \/ LoadInsertResume(1)
    \/ LoadResetResume(1)
    \/ \E k \in Kinds, t \in Texts : Call(1, 1, k, t)
    \/ Generate(1)
    \/ IncrementResume(1)
    \/ Release(1)
    \/ Tick
    \/ StoreFail
    \/ StoreRecover

PipelineSpec == PipelineInit /\ [][PipelineNext]_vars

PipelineFairSpec ==
    /\ PipelineSpec
    /\ WF_vars(Generate(1))
    /\ WF_vars(IncrementResume(1))

----------------------------------------------------------------------------
(* InvokerSpec: one call of callHFWithRetry against every upstream *)

InvokerInit == InitWith({NoRow}, {FALSE})

InvStart(m) ==
    /\ inv.pc = "idle"
    /\ inv' = [InvIdle EXCEPT !.pc = "call", !.maxRetries = m, !.attempt = 1]
    /\ UNCHANGED <<now, rec, storeUp, premium, hook, req, epoch, nAllowed, nDenied, out>>

\* The caller abandons the pending request.  callHFWithRetry takes no abort
\* signal and looks at nothing of its caller, so its loop is left as it is.
InvCancel ==
    /\ inv.pc \in {"call", "wait"}
    /\ ~inv.cancelled
    /\ inv' = [inv EXCEPT !.cancelled = TRUE]
    /\ UNCHANGED <<now, rec, storeUp, premium, hook, req, epoch, nAllowed, nDenied, out>>

InvokerNext ==
    \/ \E m \in 1..MaxAttemptsBound : InvStart(m)
    \/ InvCancel
    \/ \E o \in Outcomes : InvRespond(o)
    \/ InvWake

InvokerSpec == InvokerInit /\ [][InvokerNext]_vars

\* axios.post settles (the request has a 60 second timeout) and a timer that
\* was set fires.
InvokerFairSpec ==
    /\ InvokerSpec
    /\ WF_vars(\E o \in Outcomes : InvRespond(o))
    /\ WF_vars(InvWake)

----------------------------------------------------------------------------
(* src/src/lib/ai.ts: the quiz generator in detail *)

MaxLines == 2

\* Math.min(10, lines.length) of parseQuizFromText
ParseLimit == 10

\* for (let i = 0; i < 10; i++) of generateMockQuiz
MockQuizSize == 10

\* difficulty: 'easy' | 'medium' | 'hard'
Difficulties == {"easy", "medium", "hard"}

\* A generated text is the sequence of its lines (text.split('\n')), each a
\* sequence of characters.  The empty string is the one empty line; no lines
\* at all stands for a payload without the generated_text field.
Lines == { <<>>, <<" ">>, <<"a">>, <<"b">> }

LongText == [i \in 1..(ParseLimit + 1) |-> <<"a">>]

GeneratedTexts == UNION {[1..n -> Lines] : n \in 1..MaxLines} \cup {LongText}

\* result?.[0]?.generated_text is truthy: the field is there and not ''
Truthy(text) == text # <<>> /\ text # << <<>> >>

\* what callHFWithRetry hands to generateQuiz
QuizUpstream ==
    {[status |-> "threw", text |-> <<>>], [status |-> "returned", text |-> <<>>]}
    \cup {[status |-> "returned", text |-> t] : t \in GeneratedTexts}

\* text.split('\n').filter(line => line.trim())
NonBlankLines(text) == SelectSeq(text, LAMBDA l : Trim(l) # <<>>)

McqOptions == <<"Option A", "Option B", "Option C", "Option D">>

\* the question parseQuizFromText pushes for a line; mcq says which way
\* Math.random() > 0.5 went
ParsedQuestion(line, difficulty, mcq) ==
    IF mcq
    THEN [type |-> "mcq",
          question |-> [prefix |-> "Based on the content, ", line |-> line,
                        suffix |-> "?"],
          options |-> McqOptions, answer |-> "Option A",
          difficulty |-> difficulty]
    ELSE [type |-> "short_answer",
          question |-> [prefix |-> "Explain: ", line |-> line, suffix |-> ""],
          options |-> <<>>,
          answer |-> "Sample answer based on the content provided.",
          difficulty |-> difficulty]

\* the number of questions parseQuizFromText makes of a text
ParsedCount(text) == Min(ParseLimit, Len(NonBlankLines(text)))

\* the outcomes of the Math.random() calls of one parse
CoinSeqs(text) == [1..ParsedCount(text) -> BOOLEAN]

parseQuizFromText(text, difficulty, coins) ==
    [i \in 1..ParsedCount(text) |->
        ParsedQuestion(NonBlankLines(text)[i], difficulty, coins[i])]

questionStarters ==
    [easy |-> <<"What is mentioned about", "According to the text, what is",
                "The text states that", "Which of the following is true">>,
     medium |-> <<"How does the text explain", "What can be inferred about",
                  "The relationship between", "Why does the author suggest">>,
     hard |-> <<"Critically analyze the concept of",
                "Evaluate the effectiveness of",
                "Compare and contrast the ideas about",
                "What are the implications of">>]

MockOptions ==
    <<"The main concept discussed in the text",
      "A secondary topic mentioned briefly",
      "An unrelated concept",
      "None of the above">>

\* Mutant: every fourth question is the short-answer one.
MockQuestionEveryFourth(i, difficulty) ==
    LET starters == questionStarters[difficulty]
        starter == starters[(i % Len(starters)) + 1]
    IN IF i % 4 = 0
       THEN [type |-> "short_answer",
             question |-> [prefix |-> starter, line |-> <<>>,
                           suffix |-> " the main concepts discussed in the text?"],
             options |-> <<>>,
             answer |-> "This question requires analysis of the key concepts presented in the study material.",
             difficulty |-> difficulty]
       ELSE [type |-> "mcq",
             question |-> [prefix |-> starter, line |-> <<>>,
                           suffix |-> " the primary focus of this material?"],
             options |-> MockOptions,
             answer |-> "The main concept discussed in the text",
             difficulty |-> difficulty]

\* Mutant: the questions depend on whether the module was called before.
MockQuestionCallDependent(i, difficulty) ==
    LET starters == questionStarters[difficulty]
        starter == starters[((IF out.pc = "idle" THEN i ELSE i + 1) % Len(starters)) + 1]
    IN IF i % 3 = 0
       THEN [type |-> "short_answer",
             question |-> [prefix |-> starter, line |-> <<>>,
                           suffix |-> " the main concepts discussed in the text?"],
             options |-> <<>>,
             answer |-> "This question requires analysis of the key concepts presented in the study material.",
             difficulty |-> difficulty]
       ELSE [type |-> "mcq",
             question |-> [prefix |-> starter, line |-> <<>>,
                           suffix |-> " the primary focus of this material?"],
             options |-> MockOptions,
             answer |-> "The main concept discussed in the text",
             difficulty |-> difficulty]

\* the question generateMockQuiz pushes at index i (0-based)
MockQuestion(i, difficulty) ==
    LET starters == questionStarters[difficulty]
        starter == starters[(i % Len(starters)) + 1]
    IN IF i % 3 = 0
       THEN [type |-> "short_answer",
             question |-> [prefix |-> starter, line |-> <<>>,
                           suffix |-> " the main concepts discussed in the text?"],
             options |-> <<>>,
             answer |-> "This question requires analysis of the key concepts presented in the study material.",
             difficulty |-> difficulty]
       ELSE [type |-> "mcq",
             question |-> [prefix |-> starter, line |-> <<>>,
                           suffix |-> " the primary focus of this material?"],
             options |-> MockOptions,
             answer |-> "The main concept discussed in the text",
             difficulty |-> difficulty]

\* the text takes no part in the questions
generateMockQuiz(text, difficulty) ==
    [k \in 1..MockQuizSize |-> MockQuestion(k - 1, difficulty)]

\* Mutant: a short parsed quiz is filled up with fallback questions.
generateQuizPadded(text, difficulty, r, coins) ==
    IF r.status = "threw" THEN generateMockQuiz(text, difficulty)
    ELSE IF Truthy(r.text)
    THEN LET quizData == parseQuizFromText(r.text, difficulty, coins)
         IN quizData \o SubSeq(generateMockQuiz(text, difficulty),
                               Len(quizData) + 1, MockQuizSize)
    ELSE generateMockQuiz(text, difficulty)

\* Mutant: the parsed questions are returned whether or not there are any.
generateQuizUnchecked(text, difficulty, r, coins) ==
    IF r.status = "threw" THEN generateMockQuiz(text, difficulty)
    ELSE IF Truthy(r.text)
    THEN parseQuizFromText(r.text, difficulty, coins)
    ELSE generateMockQuiz(text, difficulty)

\* generateQuiz, given what callHFWithRetry did (r) and how the parser's
\* Math.random() calls went (coins)
generateQuiz(text, difficulty, r, coins) ==
    IF r.status = "threw" THEN generateMockQuiz(text, difficulty)
    ELSE IF Truthy(r.text)
    THEN LET quizData == parseQuizFromText(r.text, difficulty, coins)
         IN IF Len(quizData) > 0 THEN quizData
            ELSE generateMockQuiz(text, difficulty)
    ELSE generateMockQuiz(text, difficulty)

\* study material handed to a generator: the handlers pass non-blank text
Materials == {t \in Texts : Trim(t) # <<>>} \cup { <<"n", " ", "n">> }

\* generateMockQuiz is called.
RunMockQuiz ==
    /\ out.pc = "idle"
    /\ \E text \in Materials, difficulty \in Difficulties :
          out' = [pc |-> "done", fn |-> "generateMockQuiz",
                  args |-> [text |-> text, difficulty |-> difficulty],
                  result |-> generateMockQuiz(text, difficulty)]
    /\ UNCHANGED <<now, rec, storeUp, premium, hook, req, epoch, nAllowed, nDenied, inv>>

\* generateQuiz is called and runs to its return.
RunGenerateQuiz ==
    /\ out.pc = "idle"
    /\ \E text \in Materials, difficulty \in Difficulties, r \in QuizUpstream :
          \E coins \in CoinSeqs(r.text) :
             out' = [pc |-> "done", fn |-> "generateQuiz",
                     args |-> [text |-> text, difficulty |-> difficulty,
                               upstream |-> r, coins |-> coins],
                     result |-> generateQuiz(text, difficulty, r, coins)]
    /\ UNCHANGED <<now, rec, storeUp, premium, hook, req, epoch, nAllowed, nDenied, inv>>

----------------------------------------------------------------------------
(* src/src/lib/ai.ts: createExtractiveSummary *)

MaxFragments == 9

\* .slice(0, Math.min(8, sentences.length))
SummarySize == 8

\* s.trim().length > 15
MinSentence == 15

\* A text is the sequence of the fragments text.split(/[.!?]+/) makes of it.
\* Of a fragment the function looks at: its length (len), the white space
\* trim() takes off it (pad) and how many of the seven key words it includes
\* (kw); occ counts the places where a key word stands in it.  The kinds: one
\* whose trimmed length is exactly 15, one plain, one of medium length in
\* which one key word stands twice.
FragmentKinds ==
    {[len |-> 17, pad |-> 2, kw |-> 0, occ |-> 0],
     [len |-> 20, pad |-> 0, kw |-> 0, occ |-> 0],
     [len |-> 40, pad |-> 1, kw |-> 1, occ |-> 2]}

Documents == UNION {[1..n -> FragmentKinds] : n \in 0..MaxFragments}

\* filter(s => s.trim().length > 15)
Qualifies(f) == f.len - f.pad > MinSentence

\* the positions, in the text, of the fragments the filter keeps
RECURSIVE KeptPositions(_, _)
KeptPositions(doc, i) ==
    IF i > Len(doc) THEN <<>>
    ELSE IF Qualifies(doc[i]) THEN <<i>> \o KeptPositions(doc, i + 1)
    ELSE KeptPositions(doc, i + 1)

\* the score of the sentence at index (1-based) of n kept sentences
SentenceScore(f, index, n) ==
    (IF index = 1 \/ index = n THEN 2 ELSE 0)
    + f.kw
    + (IF f.len > 30 /\ f.len < 300 THEN 1 ELSE 0)

\* Mutant: equal scores change places.
InsertByScoreUnstable(sorted, x) ==
    LET before == SelectSeq(sorted, LAMBDA y : y.score > x.score)
        after == SelectSeq(sorted, LAMBDA y : y.score <= x.score)
    IN before \o <<x>> \o after

\* x goes behind every item whose score is at least its own
InsertByScore(sorted, x) ==
    LET before == SelectSeq(sorted, LAMBDA y : y.score >= x.score)
        after == SelectSeq(sorted, LAMBDA y : y.score < x.score)
    IN before \o <<x>> \o after

\* .sort((a, b) => b.score - a.score): Array.prototype.sort is stable
RECURSIVE SortByScore(_)
SortByScore(items) ==
    IF items = <<>> THEN <<>>
    ELSE InsertByScore(SortByScore(SubSeq(items, 1, Len(items) - 1)),
                       items[Len(items)])

\* scoredSentences: the kept sentences, in text order, each with its score
scoredSentences(doc) ==
    LET kept == KeptPositions(doc, 1)
        n == Len(kept)
    IN [k \in 1..n |->
          [pos |-> kept[k], score |-> SentenceScore(doc[kept[k]], k, n)]]

\* the numbered list: entry k is "k. <sentence>.", the sentence named by its
\* position in the text
createExtractiveSummary(doc) ==
    LET scored == scoredSentences(doc)
        top == SubSeq(SortByScore(scored), 1, Min(SummarySize, Len(scored)))
    IN [k \in 1..Len(top) |-> [number |-> k, pos |-> top[k].pos]]

\* createExtractiveSummary is called.
RunExtractiveSummary ==
    /\ out.pc = "idle"
    /\ \E doc \in Documents :
          out' = [pc |-> "done", fn |-> "createExtractiveSummary",
                  args |-> [doc |-> doc],
                  result |-> createExtractiveSummary(doc),
                  scored |-> scoredSentences(doc)]
    /\ UNCHANGED <<now, rec, storeUp, premium, hook, req, epoch, nAllowed, nDenied, inv>>

----------------------------------------------------------------------------
(* src/src/lib/ai.ts: generateMockHomeworkHelp *)

\* the keys of the responses object literal
HomeworkSubjects == {"mathematics", "science", "essay", "general"}

\* property names every object literal inherits from Object.prototype: a
\* lookup by one of them yields the inherited member, which is truthy
ObjectPrototypeKeys == {"constructor", "toString", "valueOf", "hasOwnProperty"}

\* subject: string
SubjectValues == HomeworkSubjects \cup ObjectPrototypeKeys \cup {"", "history"}

\* responses[subject] || responses.general: a template with the question
\* embedded, or whatever else the lookup found
generateMockHomeworkHelp(question, subject) ==
    IF subject \in HomeworkSubjects
    THEN [kind |-> "template", template |-> subject, question |-> question]
    ELSE IF subject \in ObjectPrototypeKeys
    THEN [kind |-> "inherited", template |-> subject, question |-> <<>>]
    ELSE [kind |-> "template", template |-> "general", question |-> question]

\* generateMockHomeworkHelp is called.
RunMockHomeworkHelp ==
    /\ out.pc = "idle"
    /\ \E question \in Materials, subject \in SubjectValues :
          out' = [pc |-> "done", fn |-> "generateMockHomeworkHelp",
                  args |-> [question |-> question, subject |-> subject],
                  result |-> generateMockHomeworkHelp(question, subject)]
    /\ UNCHANGED <<now, rec, storeUp, premium, hook, req, epoch, nAllowed, nDenied, inv>>

----------------------------------------------------------------------------
(* src/src/lib/ai.ts: summarizeText and getHomeworkHelp in detail *)

\* what callHFWithRetry hands to summarizeText (summary_text) and to
\* getHomeworkHelp (generated_text): it threw, or it returned a payload
\* without the field (no lines), or one with the field
TextUpstream == QuizUpstream

\* the texts summarizeText is run on
SummaryDocuments == UNION {[1..n -> FragmentKinds] : n \in 0..1}

\* formatHomeworkResponse: templates[subject] || templates.general, the
\* response embedded in the template
formatHomeworkResponse(response, subject) ==
    IF subject \in HomeworkSubjects
    THEN [kind |-> "template", template |-> subject, question |-> response]
    ELSE IF subject \in ObjectPrototypeKeys
    THEN [kind |-> "inherited", template |-> subject, question |-> <<>>]
    ELSE [kind |-> "template", template |-> "general", question |-> response]

\* Mutant: the primary text is taken whenever the field is there.
summarizeTextFieldPresent(doc, r) ==
    IF r.status = "threw"
    THEN [source |-> "fallback", content |-> createExtractiveSummary(doc)]
    ELSE IF r.text # <<>>
    THEN [source |-> "primary", content |-> [formatSummary |-> r.text]]
    ELSE [source |-> "fallback", content |-> createExtractiveSummary(doc)]

\* summarizeText, given what callHFWithRetry did (r): formatSummary of
\* result[0].summary_text when that is truthy, else createExtractiveSummary
summarizeText(doc, r) ==
    IF r.status = "threw"
    THEN [source |-> "fallback", content |-> createExtractiveSummary(doc)]
    ELSE IF Truthy(r.text)
    THEN [source |-> "primary", content |-> [formatSummary |-> r.text]]
    ELSE [source |-> "fallback", content |-> createExtractiveSummary(doc)]

\* getHomeworkHelp, given what callHFWithRetry did (r)
getHomeworkHelp(question, subject, r) ==
    IF r.status = "threw"
    THEN [source |-> "fallback",
          content |-> generateMockHomeworkHelp(question, subject)]
    ELSE IF Truthy(r.text)
    THEN [source |-> "primary",
          content |-> formatHomeworkResponse(r.text, subject)]
    ELSE [source |-> "fallback",
          content |-> generateMockHomeworkHelp(question, subject)]

\* summarizeText is called and runs to its return.
RunSummarizeText ==
    /\ out.pc = "idle"
    /\ \E doc \in SummaryDocuments, r \in TextUpstream :
          out' = [pc |-> "done", fn |-> "summarizeText",
                  args |-> [doc |-> doc, upstream |-> r],
                  result |-> summarizeText(doc, r)]
    /\ UNCHANGED <<now, rec, storeUp, premium, hook, req, epoch, nAllowed, nDenied, inv>>

\* getHomeworkHelp is called and runs to its return.
RunGetHomeworkHelp ==
    /\ out.pc = "idle"
    /\ \E question \in Materials, subject \in HomeworkSubjects, r \in TextUpstream :
          out' = [pc |-> "done", fn |-> "getHomeworkHelp",
                  args |-> [question |-> question, subject |-> subject,
                            upstream |-> r],
                  result |-> getHomeworkHelp(question, subject, r)]
    /\ UNCHANGED <<now, rec, storeUp, premium, hook, req, epoch, nAllowed, nDenied, inv>>

----------------------------------------------------------------------------
(* LoadSpec: the tabs load, and are mounted again, side by side *)

LoadNext ==
    \/ \E h \in Hooks : LoadSelectResume(h)
    \/ \E h \in Hooks : LoadInsertResume(h)
    \/ \E h \in Hooks : LoadResetResume(h)
    \/ \E h \in Hooks : Remount(h)
    \/ Tick
    \/ StoreFail
    \/ StoreRecover

LoadSpec == Init /\ [][LoadNext]_vars

----------------------------------------------------------------------------
(* src/supabase/functions/paystack-webhook/index.ts: serve *)

\* event.event of the request body
WebhookEvents == {"charge.success", "charge.failed", "subscription.create"}

\* .upsert({user_id, date, total_count: 0, last_reset}) names no onConflict
\* column, so it resolves conflicts on the primary key only; the values carry
\* no id, the new row gets a fresh one, and the statement is a plain insert:
\* the unique index (user_id, date) rejects it when the day's row exists, and
\* the row stays as it was.
upsert(row, t) ==
    IF InsertAccepted(row)
    THEN [exists |-> TRUE, count |-> 0, lastReset |-> t, rows |-> row.rows + 1]
    ELSE row

\* A request arrives.  known says whether customer.email is the email of a
\* profile.  Any event but charge.success is answered at once; for
\* charge.success the handler awaits the select of the profile.
WebhookReceive ==
    /\ out.pc = "idle"
    /\ \E event \in WebhookEvents, known \in BOOLEAN :
          out' = [pc |-> IF event = "charge.success" THEN "select" ELSE "answered",
                  fn |-> "serve",
                  args |-> [event |-> event, known |-> known],
                  result |-> IF event = "charge.success" THEN "none" ELSE "success"]
    /\ UNCHANGED <<now, rec, storeUp, premium, hook, req, epoch, nAllowed, nDenied, inv>>

\* The select of the profile returns: with a profile the handler awaits the
\* update of the profile, without one it answers.
WebhookSelectResume ==
    /\ out.fn = "serve" /\ out.pc = "select"
    /\ out' = IF storeUp /\ out.args.known
              THEN [out EXCEPT !.pc = "update"]
              ELSE [out EXCEPT !.pc = "answered", !.result = "success"]
    /\ UNCHANGED <<now, rec, storeUp, premium, hook, req, epoch, nAllowed, nDenied, inv>>

\* The update of the profile returns: without an error the handler awaits
\* the upsert of the day's row, with one it answers.
WebhookUpdateResume ==
    /\ out.fn = "serve" /\ out.pc = "update"
    /\ IF storeUp
       THEN /\ premium' = TRUE
            /\ out' = [out EXCEPT !.pc = "upsert"]
       ELSE /\ premium' = premium
            /\ out' = [out EXCEPT !.pc = "answered", !.result = "success"]
    /\ UNCHANGED <<now, rec, storeUp, hook, req, epoch, nAllowed, nDenied, inv>>

\* The upsert returns (its error, if any, is not looked at) and the handler
\* answers.
WebhookUpsertResume ==
    /\ out.fn = "serve" /\ out.pc = "upsert"
    /\ rec' = IF storeUp THEN upsert(rec, now) ELSE rec
    /\ out' = [out EXCEPT !.pc = "answered", !.result = "success"]
    /\ UNCHANGED <<now, storeUp, premium, hook, req, epoch, nAllowed, nDenied, inv>>

\* The response has been sent; the next request can arrive.
WebhookAnswered ==
    /\ out.fn = "serve" /\ out.pc = "answered"
    /\ out' = OutIdle
    /\ UNCHANGED <<now, rec, storeUp, premium, hook, req, epoch, nAllowed, nDenied, inv>>

----------------------------------------------------------------------------
(* WebhookSpec: payment events arrive while a tab loads *)

WebhookNext ==
    \/ WebhookReceive
    \/ WebhookSelectResume
    \/ WebhookUpdateResume
    \/ WebhookUpsertResume
    \/ WebhookAnswered
    \/ LoadSelectResume(1)
    \/ LoadInsertResume(1)
    \/ LoadResetResume(1)
    \/ Tick
    \/ StoreFail
    \/ StoreRecover

WebhookSpec == TabInit /\ [][WebhookNext]_vars

----------------------------------------------------------------------------
(* GeneratorSpec: one call of a generator or of a fallback, on every input *)

GeneratorInit == InitWith({NoRow}, {FALSE})

GeneratorNext ==
    \/ RunMockQuiz
    \/ RunGenerateQuiz
    \/ RunExtractiveSummary
    \/ RunMockHomeworkHelp
    \/ RunSummarizeText
    \/ RunGetHomeworkHelp

GeneratorSpec == GeneratorInit /\ [][GeneratorNext]_vars

----------------------------------------------------------------------------
(* FallbackSpec: a fallback is called, and called again on the same input *)

Fallbacks ==
    {"generateMockQuiz", "createExtractiveSummary", "generateMockHomeworkHelp"}

\* the fallback named fn, applied to args
CallFallback(fn, args) ==
    IF fn = "generateMockQuiz"
    THEN generateMockQuiz(args.text, args.difficulty)
    ELSE IF fn = "createExtractiveSummary"
    THEN createExtractiveSummary(args.doc)
    ELSE generateMockHomeworkHelp(args.question, args.subject)

\* The fallback that returned is called a second time with the arguments of
\* the first call.
RunFallbackAgain ==
    /\ out.pc = "done"
    /\ out.fn \in Fallbacks
    /\ out' = [pc |-> "again", fn |-> out.fn, args |-> out.args,
               result |-> out.result,
               again |-> CallFallback(out.fn, out.args)]
    /\ UNCHANGED <<now, rec, storeUp, premium, hook, req, epoch, nAllowed, nDenied, inv>>

FallbackNext ==
    \/ RunMockQuiz
    \/ RunExtractiveSummary
    \/ RunMockHomeworkHelp
    \/ RunFallbackAgain

FallbackSpec == GeneratorInit /\ [][FallbackNext]_vars

----------------------------------------------------------------------------
(* Properties *)

\* a handler invocation that got as far as the canUse test
Tested(r) == req[r].pc \notin {"idle", "rejected"}

\* C1: of the requests of one identity that start while the persisted count
\* is cap - 1, in the same reset window, at most one succeeds (is allowed and
\* has its usage recorded); here for requests whose tab had loaded that count.
C1_AtMostOneSucceedsAtCapMinusOne ==
    Cardinality({r \in Slots : /\ req[r].charged
                               /\ req[r].startCount = Cap - 1
                               /\ req[r].totalUsage = Cap - 1
                               /\ ~req[r].startExpired
                               /\ req[r].startEpoch = epoch}) <= 1

C3_BelowCapAllowedAndCountedOnce ==
    \A r \in Slots :
        (Tested(r) /\ req[r].startCount \in 0..(Cap - 1) /\ ~req[r].startExpired)
        => /\ req[r].pc # "denied"
           /\ req[r].pc = "done" => (req[r].charged /\ req[r].delta = 1)

\* C4: a request made while the persisted count is at or above the cap and the
\* reset window has not elapsed is denied, with a positive time until reset,
\* and writes nothing to the persisted count.
C4_AtCapDeniedWithCountdown ==
    \A r \in Slots :
        (Tested(r) /\ req[r].startCount >= Cap /\ ~req[r].startExpired)
        => /\ req[r].pc = "denied"
           /\ req[r].shownReset > 0
           /\ ~req[r].wrote

\* C5: a load that reaches the store and finds the reset window elapsed leaves
\* the count 0 exposed, whatever the count was.
C5_ExpiredRecordObservedAsZero ==
    \A h \in Hooks :
        (hook[h].ldDone /\ hook[h].ldExpired /\ ~hook[h].ldFailed)
        => hook[h].ldCount = 0

\* C6: a request of a premium identity is never denied.
C6_PremiumAlwaysAllowed ==
    \A r \in Slots : (premium /\ Tested(r)) => req[r].pc # "denied"

\* C7: a request made on a tab whose load could not reach the store is denied.
C7_FailsClosed ==
    \A r \in Slots : (Tested(r) /\ req[r].startLdFailed) => req[r].pc = "denied"

\* C8: no request ends in the handler's catch block, and every request that
\* comes back from its generator carries content, primary or fallback; when
\* the retry wrapper threw, the content is the fallback's.
C8_UpstreamErrorsNeverSurface ==
    \A r \in Slots :
        /\ req[r].pc # "failed"
        /\ req[r].pc = "incr" =>
              /\ req[r].source \in {"primary", "fallback"}
              /\ req[r].hf = "threw" => req[r].source = "fallback"

\* C8 witness: the retry wrapper threw and the request holds fallback content.
C8_Witness ==
    \E r \in Slots :
        req[r].pc = "incr" /\ req[r].hf = "threw" /\ req[r].source = "fallback"

\* C9 (state part): a request that saw canUse false has called no generator
\* and has recorded no usage.
DeniedCalledNothing ==
    \A r \in Slots :
        (req[r].pc # "idle" /\ ~req[r].canUse)
        => /\ req[r].pc \in {"denied", "rejected"}
           /\ req[r].source = "none"
           /\ req[r].hf = "none"
           /\ ~req[r].charged
           /\ ~req[r].wrote

\* C9 (step part): a denied request goes nowhere but out of its slot.
DeniedStays ==
    \A r \in Slots :
        req[r].pc = "denied" => req'[r].pc \in {"denied", "idle"}

\* C9: denied is terminal: a denied request never calls a generator, primary
\* or fallback, and never records usage.
C9_DeniedIsTerminal == [] DeniedCalledNothing /\ [][DeniedStays]_vars

\* C9 witness: a request is denied at the cap.
C9_Witness ==
    \E r \in Slots :
        req[r].pc = "denied" /\ ~req[r].canUse /\ req[r].startCount >= Cap

\* every attempt so far ended in a thrown transient failure
AllTransient(os) == Len(os) > 0 /\ \A i \in 1..Len(os) : os[i] = "transient"

C11_LastFailureRaisesExhaustion ==
    (/\ inv.maxRetries > 0
     /\ Len(inv.outcomes) = inv.maxRetries
     /\ inv.outcomes[Len(inv.outcomes)] \in {"transient", "loading"})
    => /\ inv.pc = "threw"
       /\ inv.data = "none"

\* C12: a fatal error on the first attempt ends the call there: one attempt,
\* no backoff wait, the error thrown to the generator's catch block.
C12_FatalErrorShortCircuits ==
    (Len(inv.outcomes) >= 1 /\ inv.outcomes[1] = "fatal")
    => /\ inv.pc = "threw"
       /\ inv.attempt = 1
       /\ inv.waited = 0
       /\ Len(inv.outcomes) = 1

\* the answer of a question is, by value, one of its options
AnswerAmongOptions(q) == \E j \in 1..Len(q.options) : q.options[j] = q.answer

\* C13: the quiz fallback returns exactly 10 questions for every non-empty
\* input and every difficulty of easy, medium, hard; those at indices 0, 3, 6,
\* 9 are short-answer, every other one is multiple-choice with exactly 4
\* options and an answer that is one of them.
C13_MockQuizShape ==
    out.fn = "generateMockQuiz" =>
       /\ Len(out.result) = 10
       /\ \A i \in 0..9 :
             LET q == out.result[i + 1] IN
             IF i \in {0, 3, 6, 9}
             THEN q.type = "short_answer"
             ELSE /\ q.type = "mcq"
                  /\ Len(q.options) = 4
                  /\ AnswerAmongOptions(q)

\* C13 witness: the fallback quiz of difficulty hard has been produced.
C13_Witness ==
    /\ out.fn = "generateMockQuiz"
    /\ out.args.difficulty = "hard"
    /\ out.result[5].type = "mcq"
    /\ out.result[4].type = "short_answer"

\* the sentences of the summary, by their position in the text
SummaryPositions == [k \in 1..Len(out.result) |-> out.result[k].pos]

KeptSet(doc) == {i \in 1..Len(doc) : Qualifies(doc[i])}

\* the score of the sentence at position p of the text
ScoreOf(doc, p) ==
    SentenceScore(doc[p], Cardinality({q \in KeptSet(doc) : q <= p}),
                  Cardinality(KeptSet(doc)))

\* p comes before q: higher score, or the same score and earlier in the text
Outranks(doc, p, q) ==
    \/ ScoreOf(doc, p) > ScoreOf(doc, q)
    \/ ScoreOf(doc, p) = ScoreOf(doc, q) /\ p < q

\* res lists qualifying sentences best first, and none left out beats one
\* that is in
BestFirst(doc, res) ==
    /\ \A i \in 1..Len(res) : res[i] \in KeptSet(doc)
    /\ \A i, j \in 1..Len(res) : i < j => Outranks(doc, res[i], res[j])
    /\ \A i \in 1..Len(res) :
          \A q \in KeptSet(doc) \ {res[j] : j \in 1..Len(res)} :
             Outranks(doc, res[i], q)

\* C14 as stated: with at most 8 qualifying sentences the summary is all of
\* them in their original order; with more than 8 it is exactly 8, highest
\* score first, ties in original order.
C14_AsStated ==
    out.fn = "createExtractiveSummary" =>
       LET doc == out.args.doc
           n == Cardinality(KeptSet(doc))
       IN IF n <= 8
          THEN SummaryPositions = KeptPositions(doc, 1)
          ELSE Len(SummaryPositions) = 8 /\ BestFirst(doc, SummaryPositions)

\* C14 amended: whatever the number n of qualifying sentences, the summary is
\* min(8, n) of them, highest score first, ties in original order; with at
\* most 8 it holds all of them, in that order and not in original order.
C14_BestFirstAlways ==
    out.fn = "createExtractiveSummary" =>
       LET doc == out.args.doc
           n == Cardinality(KeptSet(doc))
       IN /\ Len(SummaryPositions) = (IF n <= 8 THEN n ELSE 8)
          /\ BestFirst(doc, SummaryPositions)

\* C14 witness: more than 8 sentences qualify, two of the chosen ones tie and
\* keep their order, and the summary is not in original order.
C14_Witness ==
    /\ out.fn = "createExtractiveSummary"
    /\ Cardinality(KeptSet(out.args.doc)) > 8
    /\ Len(out.result) = 8
    /\ \E i \in 1..7 :
          /\ ScoreOf(out.args.doc, SummaryPositions[i])
               = ScoreOf(out.args.doc, SummaryPositions[i + 1])
          /\ SummaryPositions[i] < SummaryPositions[i + 1]
    /\ \E i \in 1..7 : SummaryPositions[i] > SummaryPositions[i + 1]

\* the question was made by parseQuizFromText
FromParser(q) == q.question.prefix \in {"Based on the content, ", "Explain: "}

\* C15: a returned quiz is either the parsed primary result, which then has
\* at least one question, or exactly the fallback quiz, and the latter
\* whenever the primary result has no question; never a mixture.
C15_QuizAllOrNothing ==
    out.fn = "generateQuiz" =>
       LET r == out.args.upstream
           primary == r.status = "returned" /\ Truthy(r.text)
                      /\ Len(NonBlankLines(r.text)) > 0
           mock == generateMockQuiz(out.args.text, out.args.difficulty)
       IN IF primary
          THEN /\ Len(out.result) > 0
               /\ \A k \in 1..Len(out.result) : FromParser(out.result[k])
          ELSE /\ out.result = mock
               /\ \A k \in 1..Len(out.result) : ~FromParser(out.result[k])

\* C15 witness: the primary text is there but holds blank lines only, and the
\* fallback quiz is returned.
C15_Witness ==
    /\ out.fn = "generateQuiz"
    /\ out.args.upstream.status = "returned"
    /\ Truthy(out.args.upstream.text)
    /\ NonBlankLines(out.args.upstream.text) = <<>>
    /\ Len(out.result) = 10

\* C16: the homework fallback returns the template of the subject for
\* mathematics, science, essay and general, and the general template for
\* every other subject value, with the question embedded as given.
C16_HomeworkTemplate ==
    out.fn = "generateMockHomeworkHelp" =>
       /\ out.result.kind = "template"
       /\ out.result.question = out.args.question
       /\ out.result.template =
             (IF out.args.subject \in {"mathematics", "science", "essay", "general"}
              THEN out.args.subject ELSE "general")

\* C17: usage is charged at check time: whenever an allowed request is at its
\* generator, or past it, its usage increment has already been committed.
C17_ChargedBeforeGenerator ==
    \A r \in Slots :
        req[r].pc \in {"gen", "incr", "failed"} => req[r].charged

\* C18 (step part): a step that is not a reset leaves the persisted count at
\* least what it was.
CountDoesNotDecrease ==
    (rec.exists /\ rec'.exists /\ epoch' = epoch) => rec'.count >= rec.count

\* C18: within a reset epoch the persisted count never decreases, whatever the
\* interleaving of loads, increments and resets of the clients.
C18_CountMonotonicInEpoch == [][CountDoesNotDecrease]_vars

\* C19 (step part): a step of loadUsageData, the evaluation of the quota
\* decision that consumes nothing, leaves the persisted record as it was.
LoadStepKeepsRecord ==
    (\E h \in Hooks : hook[h].lpc # "idle" /\ hook'[h].lpc # hook[h].lpc)
    => rec' = rec

\* C19: evaluating the quota decision without consuming mutates nothing: the
\* count, the last reset and the existence of the record are unchanged.
C19_PeekMutatesNothing == [][LoadStepKeepsRecord]_vars

\* C20: every quiz generateQuiz returns, parsed or fallback, has at least one
\* question, and every multiple-choice question of it has an answer equal to
\* one of its options.
C20_QuizNonEmptyAndAnswerable ==
    out.fn = "generateQuiz" =>
       /\ Len(out.result) > 0
       /\ \A k \in 1..Len(out.result) :
             out.result[k].type = "mcq" => AnswerAmongOptions(out.result[k])

\* C20 witness: a parsed quiz with a multiple-choice and a short-answer
\* question is returned.
C20_Witness ==
    /\ out.fn = "generateQuiz"
    /\ Len(out.result) = 2
    /\ FromParser(out.result[1])
    /\ out.result[1].type = "mcq"
    /\ out.result[2].type = "short_answer"

\* the base delay: attempt * 1000 after a thrown failure
BaseDelay == 1000

\* what the wrapper has to have waited after the outcomes os, none of them
\* fatal: after failed attempt a, not the last, 2 x BaseDelay x a for a
\* warm-up and 1 x BaseDelay x a for a thrown transient failure
RECURSIVE ExpectedWait(_, _, _)
ExpectedWait(os, a, maxRetries) ==
    IF a > Len(os) THEN 0
    ELSE (IF a >= maxRetries THEN 0
          ELSE IF os[a] = "loading" THEN 2 * BaseDelay * a
          ELSE IF os[a] = "transient" THEN 1 * BaseDelay * a
          ELSE 0)
         + ExpectedWait(os, a + 1, maxRetries)

\* C21: both transient kinds count on one attempt counter, and the waits are
\* 2 x baseDelay x a after a warm-up and 1 x baseDelay x a after a thrown
\* transient failure at attempt a, with no wait after the last attempt.
C21_BackoffMultipliers ==
    (inv.pc # "idle" /\ \A i \in 1..Len(inv.outcomes) : inv.outcomes[i] # "fatal")
    => /\ inv.waited = ExpectedWait(inv.outcomes, 1, inv.maxRetries)
       /\ inv.attempt = IF inv.pc = "call" THEN Len(inv.outcomes) + 1
                        ELSE Len(inv.outcomes)

\* C21 witness: a warm-up at attempt 1 and a thrown failure at attempt 2 have
\* been waited for, 2000 and then 2000 ms.
C21_Witness ==
    /\ inv.maxRetries = MaxRetries
    /\ inv.outcomes = <<"loading", "transient">>
    /\ inv.pc = "wait"
    /\ inv.waited = 4000

\* C22 (state part): no more than maxRetries calls of the remote function,
\* and the waits add up to no more than the sum of attempt x 2 x baseDelay
\* over the attempts 1..maxRetries.
RetryBounded ==
    inv.pc # "idle" =>
       /\ Len(inv.outcomes) <= inv.maxRetries
       /\ inv.attempt <= inv.maxRetries
       /\ inv.waited <= BaseDelay * inv.maxRetries * (inv.maxRetries + 1)

\* C22: for every maxRetries >= 1 and whatever the upstream does, the wrapper
\* ends, after at most maxRetries calls and a bounded total wait.
C22_RetryTerminatesBounded ==
    /\ [] RetryBounded
    /\ (inv.pc = "call") ~> (inv.pc \in {"returned", "threw"})

\* C22 witness: the largest number of attempts, all of them warm-up
\* responses, and the call has ended.
C22_Witness ==
    /\ inv.maxRetries = MaxAttemptsBound
    /\ Len(inv.outcomes) = MaxAttemptsBound
    /\ \A i \in 1..Len(inv.outcomes) : inv.outcomes[i] = "loading"
    /\ inv.pc = "returned"
    /\ inv.waited > 0

\* C23 (step part): a request moves only along Idle -> QuotaCheck ->
\* (Denied | Invoking) -> (PrimaryAccepted | FallbackInvoked) -> Done.  The
\* quota check is within the step that starts the request; "gen" is Invoking,
\* "incr" is the request holding primary or fallback content; a request with
\* an empty text is turned away at the start.
PipelineStep ==
    \A r \in Slots :
        req'[r].pc # req[r].pc =>
           \/ req[r].pc = "idle" /\ req'[r].pc \in {"denied", "gen", "rejected"}
           \/ req[r].pc = "gen" /\ req'[r].pc = "incr"
                /\ req'[r].source \in {"primary", "fallback"}
           \/ req[r].pc = "incr" /\ req'[r].pc = "done"
           \/ req[r].pc \in {"done", "denied", "rejected"} /\ req'[r].pc = "idle"

\* C23: every request follows the state machine, and every request that was
\* let through reaches Done whatever the upstream does.
C23_RequestStateMachine ==
    /\ [][PipelineStep]_vars
    /\ \A r \in Slots : (req[r].pc \in {"gen", "incr"}) ~> (req[r].pc = "done")

\* C23 witness: a request has come to Done through the generator and the
\* usage update.
C23_Witness ==
    /\ req[1].pc = "done"
    /\ req[1].canUse
    /\ req[1].charged

\* C24 as stated: for summary and homework requests the fallback is invoked
\* exactly when the retry wrapper ended with an error or its result lacks the
\* text field.
C24_AsStated ==
    out.fn \in {"summarizeText", "getHomeworkHelp"} =>
       (out.result.source = "fallback"
        <=> (out.args.upstream.status = "threw" \/ out.args.upstream.text = <<>>))

\* C24 amended: the fallback is invoked exactly when the retry wrapper ended
\* with an error or its result holds no non-empty text in the expected field
\* (the field is absent or is the empty string); otherwise the primary
\* content is returned.
C24_FallbackOnErrorOrNoText ==
    out.fn \in {"summarizeText", "getHomeworkHelp"} =>
       /\ out.result.source \in {"primary", "fallback"}
       /\ out.result.source = "fallback"
            <=> \/ out.args.upstream.status = "threw"
                \/ out.args.upstream.text = <<>>
                \/ out.args.upstream.text = << <<>> >>

\* C24 witness: the summary_text field is there and is the empty string, and
\* the fallback summary is returned.
C24_Witness ==
    /\ out.fn = "summarizeText"
    /\ out.args.upstream.status = "returned"
    /\ out.args.upstream.text = << <<>> >>
    /\ out.result.source = "fallback"

\* C25 (step part): once the caller has cancelled, no further attempt of the
\* remote call is started.
NoAttemptAfterCancel ==
    inv.cancelled => ~(inv'.pc = "call" /\ inv'.attempt > inv.attempt)

\* C25: after the caller cancels a pending request, the retry wrapper starts
\* no further attempt.
C25_CancelStopsAttempts == [][NoAttemptAfterCancel]_vars

\* C26: createExtractiveSummary keeps exactly the fragments whose trimmed
\* length exceeds 15 and gives each kept sentence the score 2 if it is the
\* first or the last of them, plus 1 for every place where a key word
\* stands in it, plus 1 if its length lies strictly between 30 and 300.
StatedScore(f, index, n) ==
    (IF index = 1 \/ index = n THEN 2 ELSE 0)
    + f.occ
    + (IF f.len > 30 /\ f.len < 300 THEN 1 ELSE 0)

C26_ScorePerOccurrence ==
    (out.pc = "done" /\ out.fn = "createExtractiveSummary") =>
        LET doc == out.args.doc
            n == Len(out.scored)
        IN /\ {out.scored[k].pos : k \in 1..n}
                = {i \in 1..Len(doc) : doc[i].len - doc[i].pad > MinSentence}
           /\ \A k \in 1..n :
                 out.scored[k].score = StatedScore(doc[out.scored[k].pos], k, n)

C28_ExposedFollowsRecord ==
    \A h \in Hooks :
        (hook[h].lpc = "idle" /\ hook[h].ldDone /\ ~hook[h].ldFailed /\ rec.exists) =>
            /\ remainingUses(hook[h].totalUsage) = Max(0, Cap - rec.count)
            /\ hook[h].timeUntilReset = calculateTimeUntilReset(rec.lastReset, now)

\* C29: there is never more than one row of daily_usage for the user and the
\* day, also when several tabs load side by side and each finds none; the row
\* is made by the first load that finds none, with total_count 0 and
\* last_reset the time at which that load issued the insert.
OneRowAtMost == rec.rows <= 1 /\ (rec.exists <=> rec.rows = 1)

CreatedFresh ==
    (~rec.exists /\ rec'.exists) =>
        /\ rec'.count = 0
        /\ \E h \in Hooks :
              /\ hook[h].lpc = "insert" /\ hook'[h].lpc = "idle"
              /\ rec'.lastReset = hook[h].lts
              /\ hook[h].lts <= now

C29_OneRowPerUserAndDay == [] OneRowAtMost /\ [][CreatedFresh]_vars

C29_Witness ==
    /\ rec.exists
    /\ rec.rows = 1
    /\ hook[1].lpc = "insert"
    /\ hook[2].lpc = "idle" /\ hook[2].ldDone /\ rec.lastReset = hook[2].lts

\* C30: a handler invoked with a text that is empty or white space only
\* returns at once: it calls no generator, adds no message and leaves the
\* persisted row as it is.
RejectedDidNothing ==
    \A r \in Slots :
        (req[r].pc # "idle" /\ ~req[r].textOk) =>
            /\ req[r].pc = "rejected"
            /\ req[r].msgs = 0
            /\ req[r].source = "none" /\ req[r].hf = "none"
            /\ ~req[r].charged /\ ~req[r].wrote

RejectedStep ==
    \A r \in Slots :
        /\ (req[r].pc = "idle" /\ req'[r].pc = "rejected") =>
               rec' = rec /\ hook' = hook
        /\ (req[r].pc = "rejected") => req'[r].pc \in {"rejected", "idle"}

C30_EmptyTextRejectedFirst == [] RejectedDidNothing /\ [][RejectedStep]_vars

C30_Witness ==
    \E r \in Slots :
        /\ req[r].pc = "rejected"
        /\ hook[req[r].hook].ldDone /\ hook[req[r].hook].canUse
        /\ rec.exists /\ rec.count < Cap

\* C31: loadUsageData goes on to resetUsage only when the row it read has
\* now - last_reset >= 6 hours and total_count >= 15; a load that reads a row
\* whose window has elapsed but whose count is below 15 finishes without
\* writing, so the row keeps its count and its last_reset; and no load lowers
\* the count or moves last_reset except through resetUsage.
ResetOnlyWhenDue ==
    \A h \in Hooks :
        /\ (hook[h].lpc = "select" /\ hook'[h].lpc = "reset") =>
               /\ rec.exists
               /\ now - rec.lastReset >= SixHours
               /\ rec.count >= Cap
        /\ (/\ hook[h].lpc = "select" /\ hook'[h].lpc # "select"
            /\ storeUp /\ rec.exists
            /\ now - rec.lastReset >= SixHours /\ rec.count < Cap) =>
               hook'[h].lpc = "idle" /\ rec' = rec
        /\ (/\ hook[h].lpc # hook'[h].lpc
            /\ rec.exists
            /\ (rec'.count # rec.count \/ rec'.lastReset # rec.lastReset)) =>
               hook[h].lpc = "reset"

C31_ResetNeedsWindowAndCap == [][ResetOnlyWhenDue]_vars

C31_Witness ==
    \E h \in Hooks :
        /\ hook[h].lpc = "idle" /\ hook[h].ldDone /\ ~hook[h].ldFailed
        /\ hook[h].ldExpired
        /\ hook[h].totalUsage = Cap - 1
        /\ rec.exists /\ rec.count = Cap - 1 /\ rec.lastReset = 0
        /\ now - rec.lastReset >= SixHours

\* C32: for a user who is not premium a handler goes on to its generator
\* only if, when it was invoked, the persisted count was below the cap (or
\* there was no row yet) or the window of the row had elapsed.
C32_GeneratorOnlyWithinQuota ==
    \A r \in Slots :
        (req[r].pc = "gen" /\ ~premium) =>
            \/ req[r].startCount < Cap
            \/ req[r].startExpired

\* C33: the persisted count is never below 0 and never above the cap.
C33_CountWithinCap == rec.count >= 0 /\ rec.count <= Cap

\* C34: a load that reads a row at the cap whose window has elapsed goes on
\* to resetUsage, and when that update succeeds the row has count 0 and
\* last_reset the time at which the reset was issued, and the tab shows the
\* user as allowed, with no use counted and the full window until the next
\* reset.  So a user at the cap whose window has elapsed is allowed again
\* sooner or later, provided loads keep finishing successfully.
CappedAndExpired ==
    rec.exists /\ rec.count >= Cap /\ now - rec.lastReset >= SixHours

ResetStep ==
    \A h \in Hooks :
        /\ (/\ hook[h].lpc = "select" /\ hook'[h].lpc # "select"
            /\ storeUp /\ CappedAndExpired) =>
               hook'[h].lpc = "reset" /\ hook'[h].lts = now /\ rec' = rec
        /\ (/\ hook[h].lpc = "reset" /\ hook'[h].lpc # "reset"
            /\ storeUp /\ rec.exists) =>
               /\ rec'.count = 0
               /\ rec'.lastReset = hook[h].lts /\ hook[h].lts <= now
               /\ hook'[h].lpc = "idle"
               /\ hook'[h].canUse /\ hook'[h].totalUsage = 0
               /\ hook'[h].timeUntilReset = SixHours

LoadSucceeds ==
    \E h \in Hooks :
        /\ hook[h].lpc # "idle" /\ hook'[h].lpc = "idle"
        /\ ~hook'[h].ldFailed

AllowedAgain ==
    /\ rec.exists /\ rec.count = 0
    /\ \E h \in Hooks :
          /\ hook[h].lpc = "idle" /\ hook[h].ldDone /\ ~hook[h].ldFailed
          /\ hook[h].canUse /\ hook[h].totalUsage = 0

C34_ResetAtCapAfterWindow ==
    /\ [][ResetStep]_vars
    /\ ([]<><<LoadSucceeds>>_vars) => (CappedAndExpired ~> AllowedAgain)

C34_Witness ==
    /\ AllowedAgain
    /\ epoch > 0
    /\ rec.lastReset >= SixHours
    /\ \E h \in Hooks : hook[h].lpc = "idle" /\ hook[h].timeUntilReset = SixHours
                          /\ hook[h].ldExpired

\* C35: a request raises the persisted count by 1 at most; a request whose
\* incrementUsage saw canUse false has written nothing; a quiz request is
\* counted only when generateQuiz returned at least one question.
C35_AtMostOnePerRequest ==
    \A r \in Slots :
        /\ req[r].wrote => req[r].delta <= 1
        /\ (req[r].pc = "done" /\ ~req[r].canUse) => ~req[r].wrote
        /\ req[r].emptyQuiz => (req[r].pc = "done" /\ ~req[r].wrote)

\* C36: the webhook changes state only for a charge.success event whose
\* customer email is that of a profile: it makes the profile premium and,
\* when its writes succeed, leaves the day's row with count 0; any other
\* request changes neither the premium flag nor the row; and every request
\* is answered with success.
WebhookStep ==
    (out' # out /\ (out.fn = "serve" \/ out'.fn = "serve")) =>
        LET args == IF out.fn = "serve" THEN out.args ELSE out'.args
            matching == args.event = "charge.success" /\ args.known
        IN /\ (~matching) => (rec' = rec /\ premium' = premium)
           /\ (matching /\ out.pc = "upsert" /\ storeUp) =>
                  premium' /\ rec'.exists /\ rec'.count = 0
           /\ (out'.pc = "answered") => out'.result = "success"

C36_WebhookUpgradesAndResets == [][WebhookStep]_vars

====
